---- MODULE Spec2Model ----
(***************************************************************************)
(* Model of src/site/_includes/components/Export.js: the Export shortcode  *)
(* (page lookup, front matter, raw-shortcode protection, rendering,        *)
(* transform, export path resolution, exportUrls map) and the text         *)
(* pipeline it is built on (pluck / insert / transform).                   *)
(*                                                                         *)
(* A text is a sequence of tokens.  A token is either one character (a     *)
(* backtick, a digit, a newline, a space) or a lexeme that the regular     *)
(* expressions of the source treat as a unit ("<div>", "<figcaption>",     *)
(* "{% raw %}", ...).  A code fence is three backtick tokens.              *)
(***************************************************************************)
EXTENDS Integers, Sequences, FiniteSets, TLC

VARIABLES exportUrls, calls, renderLog, fileLog, fn, arg, ret

vars == <<exportUrls, calls, renderLog, fileLog, fn, arg, ret>>

-----------------------------------------------------------------------------
(* Tokens *)

TICK == "BACKTICK"
NL == "\n"
SP == " "
DIV_OPEN == "<div>"
DIV_OPEN_ATTR == "<div class=\"w-columns\">"
DIV_CLOSE == "</div>"
BOLD == "<b>"
RAW_OPEN == "{% raw %}"
RAW_CLOSE == "{% endraw %}"
VERBATIM_OPEN == "{% verbatim %}"
VERBATIM_CLOSE == "{% endverbatim %}"
FIGURE_FLOAT_LEFT == "<figure class=\"float-left\">"
FIGURE_FLOAT_RIGHT == "<figure class=\"float-right\">"
FIGURE_SCREENSHOT == "<figure class=\"screenshot\">"
FIGURE == "<figure>"
FIGCAPTION == "<figcaption>"
FIGCAPTION_WD == "<figcaption class=\"wd-caption\">"
SWITCHER == "class=\"switcher\""
SWITCHER_WD == "class=\"wd-switcher\""
STATS == "class=\"stats"
STATS_WD == "class=\"wd-stats"
PRE_OPEN == "<pre class=\"prettyprint lang-"
PRE_OPEN_END == "\">{% htmlescape %}"
PRE_CLOSE == "{% endhtmlescape %}</pre>"
UNDEFINED == "undefined"
TYPE_ERROR == "#TypeError"

DigitChars == <<"0", "1", "2", "3", "4", "5", "6", "7", "8", "9">>
Digits == {DigitChars[i] : i \in 1..Len(DigitChars)}

(* The placeholder constants, each with the "_" that pluck puts before the index *)
MULTI_LINE_CODE_PLACEHOLDER == "MULTI_LINE_CODE_PLACEHOLDER_"
INLINE_CODE_PLACEHOLDER == "INLINE_CODE_PLACEHOLDER_"
RAW_PLACEHOLDER == "RAW_PLACEHOLDER_"

(* The protection patterns *)
MULTI_LINE_CODE_PATTERN == "fence.*?fence"
INLINE_CODE_PATTERN == "tick[^tick]*tick"
RAW_SHORTCODE_PATTERN == "{% raw %}(.*?){% endraw %}"

(* Tokens whose last character is ">" *)
EndsWithGT == {DIV_OPEN, DIV_OPEN_ATTR, DIV_CLOSE, BOLD, FIGURE_FLOAT_LEFT,
               FIGURE_FLOAT_RIGHT, FIGURE_SCREENSHOT, FIGURE, FIGCAPTION,
               FIGCAPTION_WD, PRE_CLOSE}

-----------------------------------------------------------------------------
(* Sequence helpers *)

Range(s) == {s[i] : i \in 1..Len(s)}

Min(S) == CHOOSE x \in S : \A y \in S : x <= y
Max(S) == CHOOSE x \in S : \A y \in S : x >= y

Count(s, T) == Cardinality({i \in 1..Len(s) : s[i] \in T})

IsFenceAt(s, i) == /\ i >= 1
                   /\ i + 2 <= Len(s)
                   /\ s[i] = TICK /\ s[i + 1] = TICK /\ s[i + 2] = TICK

(* s contains t as a contiguous subsequence *)
Contains(s, t) == \E i \in 1..(Len(s) - Len(t) + 1) : SubSeq(s, i, i + Len(t) - 1) = t

(* decimal digits of n, as the template literal prints the index *)
RECURSIVE ToDigits(_)
ToDigits(n) == IF n < 10 THEN <<DigitChars[n + 1]>>
               ELSE ToDigits(n \div 10) \o <<DigitChars[(n % 10) + 1]>>

-----------------------------------------------------------------------------
(* pluck / insert *)

(* Last index of the match that starts at i, 0 when there is none.          *)
(* A fenced region runs from a fence to the next fence, newlines included   *)
MultiLineMatchEnd(s, i) ==
  IF IsFenceAt(s, i) /\ \E j \in (i + 3)..Len(s) : IsFenceAt(s, j)
  THEN Min({j \in (i + 3)..Len(s) : IsFenceAt(s, j)}) + 2
  ELSE 0

(* An inline span runs from a backtick to the next backtick *)
InlineMatchEnd(s, i) ==
  IF s[i] = TICK /\ \E j \in (i + 1)..Len(s) : s[j] = TICK
  THEN Min({j \in (i + 1)..Len(s) : s[j] = TICK})
  ELSE 0

(* A raw shortcode runs from RAW_OPEN to the next RAW_CLOSE of the same line *)
RawMatchEnd(s, i) ==
  IF s[i] = RAW_OPEN /\ \E j \in (i + 1)..Len(s) : s[j] = RAW_CLOSE
  THEN LET j == Min({k \in (i + 1)..Len(s) : s[k] = RAW_CLOSE})
       IN IF \E k \in (i + 1)..(j - 1) : s[k] = NL THEN 0 ELSE j
  ELSE 0

MatchEnd(pattern, s, i) ==
  CASE pattern = MULTI_LINE_CODE_PATTERN -> MultiLineMatchEnd(s, i)
    [] pattern = INLINE_CODE_PATTERN -> InlineMatchEnd(s, i)
    [] pattern = RAW_SHORTCODE_PATTERN -> RawMatchEnd(s, i)

RECURSIVE PluckFrom(_, _, _, _, _, _)
PluckFrom(matches, pattern, placeholder, s, i, acc) ==
  IF i > Len(s) THEN [content |-> acc, matches |-> matches]
  ELSE LET e == MatchEnd(pattern, s, i)
       IN IF e = 0
          THEN PluckFrom(matches, pattern, placeholder, s, i + 1, Append(acc, s[i]))
          ELSE PluckFrom(Append(matches, SubSeq(s, i, e)), pattern, placeholder, s, e + 1,
                         acc \o <<placeholder>> \o ToDigits(Len(matches)))

(* pluck(matches, pattern, placeholder, content): the new content and the   *)
(* list matches after the call                                              *)
pluck(matches, pattern, placeholder, content) ==
  PluckFrom(matches, pattern, placeholder, content, 1, <<>>)

(* matches[index] for the digits captured by (\d+): a property lookup, so   *)
(* only the canonical decimal of an index in range finds an element         *)
Lookup(matches, ds, missing) ==
  IF \E n \in 1..Len(matches) : ToDigits(n - 1) = ds
  THEN matches[CHOOSE n \in 1..Len(matches) : ToDigits(n - 1) = ds]
  ELSE missing

(* last index of the run of digits that starts at i *)
DigitsEnd(s, i) ==
  LET stops == {j \in i..Len(s) : s[j] \notin Digits}
  IN IF stops = {} THEN Len(s) ELSE Min(stops) - 1

RECURSIVE InsertFrom(_, _, _, _, _)
InsertFrom(matches, placeholder, s, i, acc) ==
  IF i > Len(s) THEN acc
  ELSE IF s[i] = placeholder /\ i < Len(s) /\ s[i + 1] \in Digits
       THEN LET e == DigitsEnd(s, i + 1)
            IN InsertFrom(matches, placeholder, s, e + 1,
                          acc \o Lookup(matches, SubSeq(s, i + 1, e), <<UNDEFINED>>))
       ELSE InsertFrom(matches, placeholder, s, i + 1, Append(acc, s[i]))

insert(matches, placeholder, content) == InsertFrom(matches, placeholder, content, 1, <<>>)

-----------------------------------------------------------------------------
(* transform *)

RECURSIVE ReplaceToken(_, _, _)
ReplaceToken(s, from, to) ==
  IF s = <<>> THEN <<>>
  ELSE <<IF Head(s) \in from THEN to ELSE Head(s)>> \o ReplaceToken(Tail(s), from, to)

(* The five structural rewrites, in the order of the source *)
RemoveFloat(s) == ReplaceToken(s, {FIGURE_FLOAT_LEFT, FIGURE_FLOAT_RIGHT}, FIGURE)
AddCaptionClass(s) == ReplaceToken(s, {FIGCAPTION}, FIGCAPTION_WD)
RemoveScreenshot(s) == ReplaceToken(s, {FIGURE_SCREENSHOT}, FIGURE)
RewriteSwitcher(s) == ReplaceToken(s, {SWITCHER}, SWITCHER_WD)
PrefixStats(s) == ReplaceToken(s, {STATS}, STATS_WD)

StructuralRewrites(s) ==
  PrefixStats(RewriteSwitcher(RemoveScreenshot(AddCaptionClass(RemoveFloat(s)))))

(* codeBlock.replace(/fence(.*?)$\n/gm, PRE_OPEN $1 PRE_OPEN_END \n) *)
RECURSIVE OpenFenceFrom(_, _, _)
OpenFenceFrom(s, i, acc) ==
  IF i > Len(s) THEN acc
  ELSE IF IsFenceAt(s, i) /\ \E n \in (i + 3)..Len(s) : s[n] = NL
       THEN LET n == Min({k \in (i + 3)..Len(s) : s[k] = NL})
            IN OpenFenceFrom(s, n + 1,
                 acc \o <<PRE_OPEN>> \o SubSeq(s, i + 3, n - 1) \o <<PRE_OPEN_END, NL>>)
       ELSE OpenFenceFrom(s, i + 1, Append(acc, s[i]))

(* codeBlock.replace(/^fence$/gm, PRE_CLOSE) *)
RECURSIVE CloseFenceFrom(_, _, _)
CloseFenceFrom(s, i, acc) ==
  IF i > Len(s) THEN acc
  ELSE IF /\ IsFenceAt(s, i)
          /\ (i = 1 \/ s[i - 1] = NL)
          /\ (i + 3 > Len(s) \/ s[i + 3] = NL)
       THEN CloseFenceFrom(s, i + 3, Append(acc, PRE_CLOSE))
       ELSE CloseFenceFrom(s, i + 1, Append(acc, s[i]))

FenceToPre(codeBlock) ==
  IF codeBlock = <<TYPE_ERROR>> THEN codeBlock
  ELSE CloseFenceFrom(OpenFenceFrom(codeBlock, 1, <<>>), 1, <<>>)

(* The inner replace of the nested rewrite: every code placeholder of the   *)
(* matched container becomes its code block with the fences rewritten;      *)
(* codeBlocks[index] undefined makes codeBlock.replace throw a TypeError    *)
RECURSIVE SpliceFrom(_, _, _, _)
SpliceFrom(codeBlocks, s, i, acc) ==
  IF i > Len(s) THEN acc
  ELSE IF s[i] = MULTI_LINE_CODE_PLACEHOLDER /\ i < Len(s) /\ s[i + 1] \in Digits
       THEN LET e == DigitsEnd(s, i + 1)
            IN SpliceFrom(codeBlocks, s, e + 1,
                 acc \o FenceToPre(Lookup(codeBlocks, SubSeq(s, i + 1, e), <<TYPE_ERROR>>)))
       ELSE SpliceFrom(codeBlocks, s, i + 1, Append(acc, s[i]))

(* Last index of the match of NESTED_MULTI_LINE_CODE_PATTERN that starts at *)
(* i, 0 when there is none.  The optional attribute group is greedy within *)
(* the line of the opening tag: it ends at the last ">" of that line after  *)
(* which a closing tag still follows; the body is then lazy up to the next  *)
(* closing tag.                                                             *)
NestedMatchEnd(s, i) ==
  LET nls == {k \in i..Len(s) : s[k] = NL}
      lineEnd == IF nls = {} THEN Len(s) ELSE Min(nls) - 1
      closeAfter(k) == {j \in (k + 1)..Len(s) : s[j] = DIV_CLOSE}
      tagEnds == IF s[i] = DIV_OPEN THEN {i}
                 ELSE {k \in i..lineEnd : s[k] \in EndsWithGT /\ closeAfter(k) # {}}
  IN IF s[i] \notin {DIV_OPEN, DIV_OPEN_ATTR} \/ tagEnds = {} \/ closeAfter(Max(tagEnds)) = {}
     THEN 0
     ELSE Min(closeAfter(Max(tagEnds)))

RECURSIVE NestedFrom(_, _, _, _)
NestedFrom(codeBlocks, s, i, acc) ==
  IF i > Len(s) THEN acc
  ELSE LET e == NestedMatchEnd(s, i)
       IN IF e = 0
          THEN NestedFrom(codeBlocks, s, i + 1, Append(acc, s[i]))
          ELSE NestedFrom(codeBlocks, s, e + 1,
                          acc \o SpliceFrom(codeBlocks, SubSeq(s, i, e), 1, <<>>))

RewriteNested(codeBlocks, s) == NestedFrom(codeBlocks, s, 1, <<>>)

RawToVerbatim(s) ==
  ReplaceToken(ReplaceToken(s, {RAW_OPEN}, VERBATIM_OPEN), {RAW_CLOSE}, VERBATIM_CLOSE)

(* Mutant of transform: the structural rewrites run before the code is plucked *)
transformRewritingFirst(markdown) ==
  LET rewritten == StructuralRewrites(markdown)
      code == pluck(<<>>, MULTI_LINE_CODE_PATTERN, MULTI_LINE_CODE_PLACEHOLDER, rewritten)
      inline == pluck(<<>>, INLINE_CODE_PATTERN, INLINE_CODE_PLACEHOLDER, code.content)
      nested == RewriteNested(code.matches, inline.content)
      withCode == insert(code.matches, MULTI_LINE_CODE_PLACEHOLDER, nested)
      withInline == insert(inline.matches, INLINE_CODE_PLACEHOLDER, withCode)
  IN IF TYPE_ERROR \in Range(nested)
     THEN [threw |-> TRUE, text |-> <<>>]
     ELSE [threw |-> FALSE, text |-> RawToVerbatim(withInline)]

(* transform(markdown): [threw |-> TRUE] when the nested rewrite throws,    *)
(* otherwise the returned text                                              *)
transform(markdown) ==
  LET code == pluck(<<>>, MULTI_LINE_CODE_PATTERN, MULTI_LINE_CODE_PLACEHOLDER, markdown)
      inline == pluck(<<>>, INLINE_CODE_PATTERN, INLINE_CODE_PLACEHOLDER, code.content)
      rewritten == StructuralRewrites(inline.content)
      nested == RewriteNested(code.matches, rewritten)
      withCode == insert(code.matches, MULTI_LINE_CODE_PLACEHOLDER, nested)
      withInline == insert(inline.matches, INLINE_CODE_PLACEHOLDER, withCode)
  IN IF TYPE_ERROR \in Range(nested)
     THEN [threw |-> TRUE, text |-> <<>>]
     ELSE [threw |-> FALSE, text |-> RawToVerbatim(withInline)]

-----------------------------------------------------------------------------
(* Export: page data, front matter and template *)

SLASH == "/"
EXT == ".html"
CASE_STUDY == "case-study"
NEW_TO_THE_WEB == "new-to-the-web"

(* authors.yml: the ids that have an entry, with their title.en *)
authorValues == [id \in {"adamargyle"} |-> [title |-> [en |-> "Adam Argyle"]]]

RECURSIVE Join(_, _)
Join(lines, sep) ==
  IF lines = <<>> THEN <<>>
  ELSE IF Len(lines) = 1 THEN Head(lines)
  ELSE Head(lines) \o <<sep>> \o Join(Tail(lines), sep)

StartsWithLearn(url) == Len(url) >= 2 /\ url[1] = SLASH /\ url[2] = "learn"

(* Mutant of AuthorLookupThrows: the lookup is optional-chained *)
AuthorLookupNeverThrows(page) == FALSE

(* authors is truthy (also when it is an empty list) and authorValues has   *)
(* no entry for authors[0]: reading .title of undefined throws              *)
AuthorLookupThrows(page) ==
  page.hasAuthors /\ (page.authors = <<>> \/ page.authors[1] \notin DOMAIN authorValues)

(* authorValues[authors[0]].title.en *)
AuthorName(page) ==
  IF page.authors # <<>> /\ page.authors[1] \in DOMAIN authorValues
  THEN authorValues[page.authors[1]].title.en
  ELSE UNDEFINED

(* The front matter object, serialised as "key: value" lines *)
FrontMatter(url, page) ==
  Join(<< <<"project_path: /_project.yaml">>, <<"book_path: /_book.yaml">> >>
       \o (IF page.hasAuthors
           THEN << <<"author_name: ", AuthorName(page)>> >>
           ELSE <<>>)
       \o (IF page.description # "" THEN << <<"description: ", page.description>> >> ELSE <<>>)
       \o (IF StartsWithLearn(url) THEN << <<"page_type: course">> >> ELSE <<>>),
       NL)

Template(url, page, title) ==
  FrontMatter(url, page)
  \o <<NL, NL, "{% import \"/_macros.html\" as macros %}", NL,
       "{% include \"/_styles/style.md\" %}", NL, NL, "# ", title, NL>>
  \o (IF page.hasAuthors
      THEN <<NL, "{{ macros.Authors(">> \o Join([i \in 1..Len(page.authors) |-> <<page.authors[i]>>], ",")
           \o <<") }}", NL>>
      ELSE <<>>)

-----------------------------------------------------------------------------
(* Export: path resolution *)

(* path.parse(url): the dir and name parts *)
PathParse(path) ==
  LET n == Len(path)
      isAbsolute == n > 0 /\ path[1] = SLASH
      start == IF isAbsolute THEN 2 ELSE 1
      nonSlash == {i \in start..n : path[i] # SLASH}
      end == IF nonSlash = {} THEN 0 ELSE Max(nonSlash)
      slashes == {i \in start..end : path[i] = SLASH}
      first == IF slashes = {} THEN start ELSE Max(slashes) + 1
      dots == {i \in first..end : path[i] = EXT}
      nameEnd == IF dots = {} \/ Max(dots) = first THEN end ELSE Max(dots) - 1
  IN [dir |-> IF slashes # {} THEN SubSeq(path, 1, Max(slashes) - 1)
              ELSE IF isAbsolute THEN <<SLASH>> ELSE <<>>,
      name |-> IF end = 0 THEN <<>> ELSE SubSeq(path, first, nameEnd)]

Includes(tags, tag) == \E i \in 1..Len(tags) : tags[i] = tag

EnsureTrailingSlash(dir) ==
  IF dir # <<>> /\ dir[Len(dir)] = SLASH THEN dir ELSE Append(dir, SLASH)

(* Mutant of ExportPath: the new-to-the-web rule is tried first *)
ExportPathBlogFirst(url, tags) ==
  LET exportPath == EnsureTrailingSlash(PathParse(url).dir)
  IN IF Includes(tags, NEW_TO_THE_WEB) THEN exportPath \o <<"blog", SLASH>>
     ELSE IF Includes(tags, CASE_STUDY) THEN exportPath \o <<"case-studies", SLASH>>
     ELSE IF exportPath = <<SLASH>> THEN exportPath \o <<"articles", SLASH>>
     ELSE exportPath

(* Mutant of ExportPath: the articles rule replaces the directory instead   *)
(* of applying to the root only                                             *)
ExportPathArticlesAnywhere(url, tags) ==
  LET exportPath == EnsureTrailingSlash(PathParse(url).dir)
  IN IF Includes(tags, CASE_STUDY) THEN exportPath \o <<"case-studies", SLASH>>
     ELSE IF Includes(tags, NEW_TO_THE_WEB) THEN exportPath \o <<"blog", SLASH>>
     ELSE <<SLASH, "articles", SLASH>>

(* exportPath after the tag and root rules *)
ExportPath(url, tags) ==
  LET exportPath == EnsureTrailingSlash(PathParse(url).dir)
  IN IF Includes(tags, CASE_STUDY) THEN exportPath \o <<"case-studies", SLASH>>
     ELSE IF Includes(tags, NEW_TO_THE_WEB) THEN exportPath \o <<"blog", SLASH>>
     ELSE IF exportPath = <<SLASH>> THEN exportPath \o <<"articles", SLASH>>
     ELSE exportPath

(* the value stored in exportUrls *)
ExportTarget(url, tags) == ExportPath(url, tags) \o PathParse(url).name

-----------------------------------------------------------------------------
(* Export: the shortcode as a state machine.  A call runs synchronously up  *)
(* to the await of the render promise, resumes when the renderString        *)
(* callback has resolved it, and returns after the await of exportFile.     *)

NO_ERROR == "null"
RENDER_ERROR_PREFIX == "Could not render template: "
EXPORT_VAR == "{{ export }}"

(* Mutant of NoSource: only undefined content counts as no source *)
NoSourceOnlyUndefined(page) == ~page.hasContent

(* if (!source): the content is undefined or the empty string *)
NoSource(page) == ~page.hasContent \/ page.content = <<>>

(* exportUrls.set(url, target) *)
MapSet(map, key, value) ==
  [k \in DOMAIN map \cup {key} |-> IF k = key THEN value ELSE map[k]]

(* Mutant of RecordExportUrl: the entry is put in a fresh map *)
RecordExportUrlFresh(urls, url, tags) == MapSet(<<>>, url, ExportTarget(url, tags))

RecordExportUrl(urls, url, tags) == MapSet(urls, url, ExportTarget(url, tags))

(* njkEnv.renderString on a template that renders: the only template tag   *)
(* of the modelled sources prints ctx.export, which Export sets to true     *)
RenderString(source) == ReplaceToken(source, {EXPORT_VAR}, "true")

(* Mutant of Resolution: the callback resolves with result, also on error *)
ResolutionIgnoringError(err, result) == IF err # NO_ERROR THEN <<UNDEFINED>> ELSE result

(* What the renderString callback resolves the promise with *)
Resolution(err, result) ==
  IF err # NO_ERROR THEN <<RENDER_ERROR_PREFIX, err>> ELSE result

NewCall(url, title, page) ==
  [pc |-> "pending", url |-> url, title |-> title, page |-> page,
   rawShortcodes |-> <<>>, template |-> <<>>, exportPath |-> <<>>,
   err |-> NO_ERROR, markdown |-> <<>>, doc |-> <<>>]

(* Export() from its first line to the await of the render promise *)
ExportStart(p) ==
  /\ calls[p].pc = "pending"
  /\ LET c == calls[p]
         raw == pluck(<<>>, RAW_SHORTCODE_PATTERN, RAW_PLACEHOLDER, c.page.content)
         exportPath == ExportPath(c.url, c.page.tags)
     IN IF NoSource(c.page)
        THEN /\ calls' = [calls EXCEPT ![p].pc = "returned", ![p].doc = <<>>]
             /\ UNCHANGED <<exportUrls, renderLog>>
        ELSE IF AuthorLookupThrows(c.page)
        THEN /\ calls' = [calls EXCEPT ![p].pc = "rejected"]
             /\ UNCHANGED <<exportUrls, renderLog>>
        ELSE /\ calls' = [calls EXCEPT ![p].pc = "rendering",
                                       ![p].template = Template(c.url, c.page, c.title),
                                       ![p].rawShortcodes = raw.matches,
                                       ![p].exportPath = exportPath]
             /\ exportUrls' = RecordExportUrl(exportUrls, c.url, c.page.tags)
             /\ renderLog' = Append(renderLog, [call |-> p, source |-> raw.content,
                                                exportPath |-> exportPath])
  /\ UNCHANGED <<fileLog, fn, arg, ret>>

(* The callback given to renderString, called once with an error or a result *)
RenderCallback(p, err) ==
  /\ calls[p].pc = "rendering"
  /\ LET source == (CHOOSE r \in Range(renderLog) : r.call = p).source
     IN calls' = [calls EXCEPT ![p].pc = "resolved",
                               ![p].err = err,
                               ![p].markdown = Resolution(err, RenderString(source))]
  /\ UNCHANGED <<exportUrls, renderLog, fileLog, fn, arg, ret>>

(* Export() from the resolved render promise to the await of exportFile *)
ExportResume(p) ==
  /\ calls[p].pc = "resolved"
  /\ LET c == calls[p]
         markdown == insert(c.rawShortcodes, RAW_PLACEHOLDER, c.markdown)
         transformed == transform(markdown)
         transformedMarkdown == c.template \o transformed.text
     IN IF transformed.threw
        THEN /\ calls' = [calls EXCEPT ![p].pc = "rejected"]
             /\ UNCHANGED fileLog
        ELSE /\ calls' = [calls EXCEPT ![p].pc = "writing", ![p].doc = transformedMarkdown]
             /\ fileLog' = Append(fileLog, [call |-> p, exportPath |-> c.exportPath,
                                            content |-> transformedMarkdown])
  /\ UNCHANGED <<exportUrls, renderLog, fn, arg, ret>>

(* exportFile has completed: Export returns transformedMarkdown *)
ExportReturn(p) ==
  /\ calls[p].pc = "writing"
  /\ calls' = [calls EXCEPT ![p].pc = "returned"]
  /\ UNCHANGED <<exportUrls, renderLog, fileLog, fn, arg, ret>>

RenderErrors == {"Template render error", FIGCAPTION}

Start == \E p \in DOMAIN calls : ExportStart(p)
Rendered == \E p \in DOMAIN calls : \E err \in RenderErrors \cup {NO_ERROR} : RenderCallback(p, err)
Resume == \E p \in DOMAIN calls : ExportResume(p)
Return == \E p \in DOMAIN calls : ExportReturn(p)

NextExport == Start \/ Rendered \/ Resume \/ Return

-----------------------------------------------------------------------------
(* Spec: two Export calls of one build, interleaved at their awaits *)

Procs == {"call1", "call2"}

Pages == [hasContent : BOOLEAN, content : {<<>>, <<FIGCAPTION>>},
          hasAuthors : BOOLEAN, authors : {<<"jane">>, <<"adamargyle">>},
          description : {"", "About"},
          tags : {<<>>, <<CASE_STUDY>>}]

UrlBar == <<SLASH, "bar">>
UrlFooBar == <<SLASH, "foo", SLASH, "bar">>

NoPureCall == fn = "none" /\ arg = <<>> /\ ret = <<>>

Init ==
  /\ exportUrls = <<>>
  /\ renderLog = <<>>
  /\ fileLog = <<>>
  /\ calls \in [Procs -> {NewCall(url, "Title", page) :
                            url \in {UrlBar, UrlFooBar},
                            page \in {pg \in Pages : /\ pg.hasContent \/ pg.content = <<>>
                                                     /\ pg.hasAuthors \/ pg.authors = <<"jane">>
                                                     /\ pg.description = "" \/ pg.hasAuthors}}]
  /\ NoPureCall

Spec == Init /\ [][NextExport]_vars

-----------------------------------------------------------------------------
(* Properties of Spec *)

Declared(p) == calls[p].page.hasContent /\ calls[p].page.content # <<>>
MissingAuthor(p) ==
  /\ calls[p].page.hasAuthors
  /\ calls[p].page.authors = <<>> \/ calls[p].page.authors[1] \notin DOMAIN authorValues
InRenderLog(p) == \E i \in 1..Len(renderLog) : renderLog[i].call = p
InFileLog(p) == \E i \in 1..Len(fileLog) : fileLog[i].call = p

(* C6: a call for a page with content whose first declared author has no    *)
(* entry in the authors table ends rejected in its first step: it never     *)
(* returns a document, renderString and exportFile are never called for it, *)
(* and its step adds nothing to exportUrls.                                 *)
C6_MissingAuthorRejects ==
  [][\A p \in DOMAIN calls :
       (Declared(p) /\ MissingAuthor(p)) =>
         /\ calls'[p].pc \in {"pending", "rejected"}
         /\ ~InRenderLog(p)' /\ ~InFileLog(p)'
         /\ (calls'[p] # calls[p] =>
               /\ calls[p].pc = "pending" /\ calls'[p].pc = "rejected"
               /\ exportUrls' = exportUrls /\ renderLog' = renderLog /\ fileLog' = fileLog)]_vars

C6_Witness ==
  \E p \in DOMAIN calls : \E q \in DOMAIN calls :
     /\ Declared(p) /\ MissingAuthor(p) /\ calls[p].pc = "rejected"
     /\ calls[q].pc = "returned" /\ calls[q].url = calls[p].url /\ calls[q].doc # <<>>

(* C7: when renderString calls back with an error, the call is not          *)
(* rejected: the promise resolves with "Could not render template: " + err, *)
(* and the document written by exportFile and returned is the template      *)
(* followed by transform of that string after raw-shortcode insertion.      *)
C7_RenderErrorStillExports ==
  \A p \in DOMAIN calls :
     calls[p].err # NO_ERROR =>
       LET c == calls[p]
           message == <<RENDER_ERROR_PREFIX, c.err>>
           expected == c.template \o transform(insert(c.rawShortcodes, RAW_PLACEHOLDER, message)).text
       IN /\ c.pc \in {"resolved", "writing", "returned"}
          /\ c.pc = "resolved" => c.markdown = message
          /\ c.pc \in {"writing", "returned"} =>
               /\ c.doc = expected
               /\ \E i \in 1..Len(fileLog) : fileLog[i].call = p /\ fileLog[i].content = expected

C7_Witness ==
  \E p \in DOMAIN calls :
     /\ calls[p].err = FIGCAPTION /\ calls[p].pc = "returned"
     /\ Contains(calls[p].doc, <<RENDER_ERROR_PREFIX, FIGCAPTION_WD>>)
     /\ calls[p].page.hasAuthors

(* C8: a call for a page whose content is absent or empty returns the empty *)
(* string in its first step, and that step calls neither renderString nor   *)
(* exportFile and leaves exportUrls as it was.                              *)
C8_NoSourceReturnsEmpty ==
  [][\A p \in DOMAIN calls :
       (~calls[p].page.hasContent \/ calls[p].page.content = <<>>) =>
         /\ calls'[p].pc \in {"pending", "returned"}
         /\ calls'[p].doc = <<>>
         /\ ~InRenderLog(p)' /\ ~InFileLog(p)'
         /\ (calls'[p] # calls[p] =>
               exportUrls' = exportUrls /\ renderLog' = renderLog /\ fileLog' = fileLog)]_vars

C8_Witness ==
  \E p \in DOMAIN calls : \E q \in DOMAIN calls :
     /\ calls[p].page.hasContent /\ calls[p].page.content = <<>>
     /\ calls[p].page.hasAuthors /\ calls[p].page.authors = <<"adamargyle">>
     /\ calls[p].pc = "returned" /\ calls[p].doc = <<>>
     /\ calls[q].pc = "rendering" /\ calls[p].url \notin DOMAIN exportUrls

(* C10: in every step of every interleaving exportUrls keeps its keys; a    *)
(* call that is past its first step without having returned empty or been   *)
(* rejected there has an entry for its URL; and an entry is new or changed  *)
(* only by the first step of a call for that URL, which sets it to the path *)
(* resolved from that call's URL and tags.                                  *)
C10_ExportUrlsGrow ==
  [][/\ DOMAIN exportUrls \subseteq DOMAIN exportUrls'
     /\ \A p \in DOMAIN calls :
          (InRenderLog(p)' \/ calls'[p].pc \in {"rendering", "resolved", "writing"})
             => calls'[p].url \in DOMAIN exportUrls'
     /\ \A p \in DOMAIN calls :
          (calls[p].pc = "pending" /\ Declared(p) /\ ~MissingAuthor(p) /\ calls'[p] # calls[p])
             => /\ InRenderLog(p)'
                /\ exportUrls'[calls[p].url] = ExportTarget(calls[p].url, calls[p].page.tags)
     /\ \A u \in DOMAIN exportUrls' :
          \/ u \in DOMAIN exportUrls /\ exportUrls'[u] = exportUrls[u]
          \/ \E p \in DOMAIN calls :
               /\ calls[p].pc = "pending" /\ calls'[p].pc = "rendering" /\ calls[p].url = u
               /\ exportUrls'[u] = ExportTarget(u, calls[p].page.tags)]_vars

C10_Witness ==
  \E p \in DOMAIN calls : \E q \in DOMAIN calls :
     /\ calls[p].url = calls[q].url /\ calls[p].page.tags # calls[q].page.tags
     /\ calls[p].pc = "returned" /\ calls[p].err # NO_ERROR
     /\ calls[q].pc = "rendering"
     /\ renderLog[1].call = q
     /\ exportUrls[calls[p].url] = ExportTarget(calls[p].url, calls[p].page.tags)

-----------------------------------------------------------------------------
(* SpecPath: one Export call, over every URL and tag list within the bounds *)

MaxUrlLen == 4
MaxTags == 2

SeqsUpTo(S, n) == UNION {[1..k -> S] : k \in 0..n}

Urls == {u \in SeqsUpTo({SLASH, "foo", "bar", EXT}, MaxUrlLen) : u # <<>> /\ u[1] = SLASH}
TagLists == SeqsUpTo({CASE_STUDY, NEW_TO_THE_WEB, "blog"}, MaxTags)

PlainPage(content, tags) ==
  [hasContent |-> TRUE, content |-> content, hasAuthors |-> FALSE, authors |-> <<>>,
   description |-> "", tags |-> tags]

InitPath ==
  /\ exportUrls = <<>>
  /\ renderLog = <<>>
  /\ fileLog = <<>>
  /\ \E url \in Urls : \E tags \in TagLists :
        calls = [p \in {"call1"} |-> NewCall(url, "Title", PlainPage(<<"text">>, tags))]
  /\ NoPureCall

SpecPath == InitPath /\ [][NextExport]_vars

Started(p) == calls[p].pc \in {"rendering", "resolved", "writing", "returned"}

(* C4: when the tags include both case-study and new-to-the-web, in either  *)
(* order and for any directory, the segment appended to the directory part  *)
(* is case-studies/, never blog/.                                           *)
C4_CaseStudyFirst ==
  \A p \in DOMAIN calls :
     (/\ Started(p)
      /\ \E i \in 1..Len(calls[p].page.tags) : calls[p].page.tags[i] = CASE_STUDY
      /\ \E i \in 1..Len(calls[p].page.tags) : calls[p].page.tags[i] = NEW_TO_THE_WEB)
     => LET parsed == PathParse(calls[p].url)
            dir == EnsureTrailingSlash(parsed.dir)
        IN /\ calls[p].exportPath = dir \o <<"case-studies", SLASH>>
           /\ exportUrls[calls[p].url] = dir \o <<"case-studies", SLASH>> \o parsed.name
           /\ \A i \in 1..Len(renderLog) : "blog" \notin Range(renderLog[i].exportPath)

C4_Witness ==
  \E p \in DOMAIN calls :
     /\ calls[p].pc = "returned"
     /\ calls[p].page.tags = <<NEW_TO_THE_WEB, CASE_STUDY>>
     /\ calls[p].url = UrlFooBar
     /\ exportUrls[UrlFooBar] = <<SLASH, "foo", SLASH, "case-studies", SLASH, "bar">>

NoRuleTag(p) == \A i \in 1..Len(calls[p].page.tags) :
                   calls[p].page.tags[i] \notin {CASE_STUDY, NEW_TO_THE_WEB}

(* C5 as stated: for the URL /foo/bar and no case-study or new-to-the-web   *)
(* tag, the path recorded in exportUrls is /articles/bar.                   *)
C5_FooBarToArticles ==
  \A p \in DOMAIN calls :
     (Started(p) /\ calls[p].url = UrlFooBar /\ NoRuleTag(p))
     => exportUrls[UrlFooBar] = <<SLASH, "articles", SLASH, "bar">>

(* C5 as amended: with no case-study or new-to-the-web tag, the recorded    *)
(* path is /articles/<name> exactly when the directory part of the URL is   *)
(* the root: /bar gives /articles/bar, and /foo/bar stays /foo/bar.         *)
C5_ArticlesOnlyAtRoot ==
  \A p \in DOMAIN calls :
     (Started(p) /\ NoRuleTag(p))
     => LET url == calls[p].url
            parsed == PathParse(url)
        IN /\ url = UrlBar => exportUrls[url] = <<SLASH, "articles", SLASH, "bar">>
           /\ url = UrlFooBar => exportUrls[url] = UrlFooBar
           /\ parsed.dir = <<SLASH>> => exportUrls[url] = <<SLASH, "articles", SLASH>> \o parsed.name
           /\ parsed.dir # <<SLASH>> => exportUrls[url] = EnsureTrailingSlash(parsed.dir) \o parsed.name

C5_Witness ==
  \E p \in DOMAIN calls :
     /\ calls[p].pc = "returned" /\ calls[p].url = UrlFooBar /\ calls[p].page.tags = <<"blog">>
     /\ exportUrls[UrlFooBar] = UrlFooBar

-----------------------------------------------------------------------------
(* SpecRaw: one Export call whose source holds raw shortcodes *)

MaxRawLen == 3

RawSources == SeqsUpTo({RAW_OPEN, RAW_CLOSE, FIGCAPTION, EXPORT_VAR, "text"}, MaxRawLen) \ {<<>>}

InitRaw ==
  /\ exportUrls = <<>>
  /\ renderLog = <<>>
  /\ fileLog = <<>>
  /\ \E source \in RawSources :
        calls = [p \in {"call1"} |-> NewCall(UrlBar, "Title", PlainPage(source, <<>>))]
  /\ NoPureCall

SpecRaw == InitRaw /\ [][NextExport]_vars

(* C1: for every raw region RAW_OPEN X RAW_CLOSE of the page source, the    *)
(* document returned by Export contains VERBATIM_OPEN X VERBATIM_CLOSE with *)
(* X unchanged, also when X holds text that a rewrite rule matches.         *)
C1_RawRegionVerbatim ==
  \A p \in DOMAIN calls :
     (calls[p].pc = "returned" /\ calls[p].err = NO_ERROR)
     => LET source == calls[p].page.content
        IN \A i \in 1..Len(source) : \A j \in (i + 1)..Len(source) :
              (/\ source[i] = RAW_OPEN /\ source[j] = RAW_CLOSE
               /\ \A k \in (i + 1)..(j - 1) : source[k] \notin {RAW_OPEN, RAW_CLOSE, NL})
              => Contains(calls[p].doc,
                          <<VERBATIM_OPEN>> \o SubSeq(source, i + 1, j - 1) \o <<VERBATIM_CLOSE>>)

-----------------------------------------------------------------------------
(* Calls of the pure functions: fn names the function to call, arg its      *)
(* argument, ret what it returned                                           *)

NoExportCall == exportUrls = <<>> /\ calls = <<>> /\ renderLog = <<>> /\ fileLog = <<>>

CallTransform ==
  /\ fn = "transform"
  /\ fn' = "done"
  /\ ret' = transform(arg)
  /\ UNCHANGED <<arg, exportUrls, calls, renderLog, fileLog>>

(* insert, with the list and placeholder of pluck, on the text pluck returned *)
RoundTrip(pattern, placeholder, text) ==
  LET plucked == pluck(<<>>, pattern, placeholder, text)
  IN insert(plucked.matches, placeholder, plucked.content)

CallRoundTrip ==
  /\ fn = "roundtrip"
  /\ fn' = "done"
  /\ ret' = [threw |-> FALSE, text |-> RoundTrip(arg.pattern, arg.placeholder, arg.text)]
  /\ UNCHANGED <<arg, exportUrls, calls, renderLog, fileLog>>

REWRITABLE == "R"

(* Input texts are written over lexemes: a whole code block holding a       *)
(* rewritable token, a fence line, a closing fence on its own line, a bare  *)
(* fence, or a single token                                                 *)
Lexeme(l) ==
  CASE l = "CODE_BLOCK" -> <<TICK, TICK, TICK, "js", NL, REWRITABLE, NL, TICK, TICK, TICK>>
    [] l = "OPEN_FENCE" -> <<TICK, TICK, TICK, "js", NL>>
    [] l = "CLOSE_FENCE" -> <<NL, TICK, TICK, TICK>>
    [] l = "FENCE" -> <<TICK, TICK, TICK>>
    [] OTHER -> <<l>>

RECURSIVE Flatten(_)
Flatten(lex) == IF lex = <<>> THEN <<>> ELSE Lexeme(Head(lex)) \o Flatten(Tail(lex))

NoReturn == [threw |-> FALSE, text |-> <<>>]

-----------------------------------------------------------------------------
(* SpecTransform: transform on texts with code inside and outside containers *)

MaxLex == 4

RewriteSources == {FIGURE_FLOAT_LEFT, FIGURE_FLOAT_RIGHT, FIGCAPTION, FIGURE_SCREENSHOT,
                   SWITCHER, STATS}
RewriteTargets == {FIGURE, FIGCAPTION_WD, SWITCHER_WD, STATS_WD}
MASK == "masked"

TransformInputs ==
  {ReplaceToken(Flatten(lex), {REWRITABLE}, r) :
     lex \in SeqsUpTo({"CODE_BLOCK", "FENCE", TICK, DIV_OPEN, DIV_CLOSE, REWRITABLE}, MaxLex),
     r \in RewriteSources}

InitTransform ==
  /\ NoExportCall
  /\ fn = "transform"
  /\ arg \in TransformInputs
  /\ ret = NoReturn

SpecTransform == InitTransform /\ [][CallTransform]_vars

MaskSources(s) == ReplaceToken(s, RewriteSources, MASK)
MaskAll(matches) == [i \in 1..Len(matches) |-> MaskSources(matches[i])]

-----------------------------------------------------------------------------
(* SpecFence: transform on texts with fenced code in containers *)

MaxFenceLex == 5

FenceInputs ==
  {Flatten(lex) : lex \in SeqsUpTo({"OPEN_FENCE", "FENCE", NL, SP, DIV_OPEN, DIV_OPEN_ATTR,
                                    DIV_CLOSE}, MaxFenceLex)}

InitFence ==
  /\ NoExportCall
  /\ fn = "transform"
  /\ arg \in FenceInputs
  /\ ret = NoReturn

SpecFence == InitFence /\ [][CallTransform]_vars

(* the digits of the code placeholders that lie in a matched container *)
RECURSIVE PlaceholdersIn(_, _)
PlaceholdersIn(s, i) ==
  IF i > Len(s) THEN {}
  ELSE IF s[i] = MULTI_LINE_CODE_PLACEHOLDER /\ i < Len(s) /\ s[i + 1] \in Digits
       THEN {SubSeq(s, i + 1, DigitsEnd(s, i + 1))} \cup PlaceholdersIn(s, DigitsEnd(s, i + 1) + 1)
       ELSE PlaceholdersIn(s, i + 1)

RECURSIVE InContainers(_, _)
InContainers(s, i) ==
  IF i > Len(s) THEN {}
  ELSE LET e == NestedMatchEnd(s, i)
       IN IF e = 0 THEN InContainers(s, i + 1)
          ELSE PlaceholdersIn(SubSeq(s, i, e), 1) \cup InContainers(s, e + 1)

HasFence(s) == \E i \in 1..Len(s) : IsFenceAt(s, i)

(* a code block written as an opening fence line, lines of code, and a      *)
(* closing fence that ends its own line, after spaces at most               *)
FenceLines(block) ==
  /\ \E k \in 1..Len(block) : block[k] = NL
  /\ LET last == Max({k \in 1..Len(block) : block[k] = NL})
     IN /\ last + 3 <= Len(block)
        /\ \A k \in (last + 1)..(Len(block) - 3) : block[k] = SP

(* C9: for every code block (an opening fence line up to a closing fence on *)
(* its own line) whose placeholder lies in a matched container, the text    *)
(* spliced into the output has no fence left, and has exactly one           *)
(* opening <pre ...>{% htmlescape %} and one closing {% endhtmlescape %}    *)
(* </pre>.                                                                  *)
C9_NoBareFenceInContainer ==
  (fn = "done" /\ ~ret.threw) =>
     LET code == pluck(<<>>, MULTI_LINE_CODE_PATTERN, MULTI_LINE_CODE_PLACEHOLDER, arg)
         inline == pluck(<<>>, INLINE_CODE_PATTERN, INLINE_CODE_PLACEHOLDER, code.content)
     IN \A n \in 1..Len(code.matches) :
           (FenceLines(code.matches[n]) /\ ToDigits(n - 1) \in InContainers(inline.content, 1)) =>
              \E i \in 1..Len(ret.text) : \E j \in i..Len(ret.text) :
                 LET spliced == SubSeq(ret.text, i, j)
                 IN /\ spliced = FenceToPre(code.matches[n])
                    /\ ~HasFence(spliced)
                    /\ Count(spliced, {PRE_OPEN}) = 1
                    /\ Count(spliced, {PRE_OPEN_END}) = 1
                    /\ Count(spliced, {PRE_CLOSE}) = 1

-----------------------------------------------------------------------------
(* SpecPluck: pluck followed by insert, for the three patterns *)

MaxPluckLex == 4

Protections ==
  {[pattern |-> MULTI_LINE_CODE_PATTERN, placeholder |-> MULTI_LINE_CODE_PLACEHOLDER],
   [pattern |-> INLINE_CODE_PATTERN, placeholder |-> INLINE_CODE_PLACEHOLDER],
   [pattern |-> RAW_SHORTCODE_PATTERN, placeholder |-> RAW_PLACEHOLDER]}

PluckInputs ==
  {Flatten(lex) : lex \in SeqsUpTo({"FENCE", TICK, RAW_OPEN, RAW_CLOSE, NL, "text", "1"},
                                   MaxPluckLex)}

InitPluck ==
  /\ NoExportCall
  /\ fn = "roundtrip"
  /\ \E text \in PluckInputs : \E pr \in Protections :
        arg = [pattern |-> pr.pattern, placeholder |-> pr.placeholder, text |-> text]
  /\ ret = NoReturn

SpecPluck == InitPluck /\ [][CallRoundTrip]_vars

(* C3: insert with the list and placeholder that pluck produced, on the     *)
(* text pluck returned, gives back the original text.                       *)
C3_RoundTrip == fn = "done" => ret.text = arg.text

====
